---------------------------- MODULE Spec2Model ----------------------------
(***************************************************************************)
(* A model of media/updatelist.py, the media catalog builder: directory    *)
(* traversal (os.walk with a visited set, or Path.rglob), the extension    *)
(* and name filter, the header sniffers for PNG / GIF / BMP / JPEG, the    *)
(* ffprobe resolver for video, the orientation classifier, the sorted      *)
(* catalog and the manifest write of main.                                 *)
(*                                                                         *)
(* Text is modelled as sequences of one-character strings, file contents   *)
(* as sequences of byte values 0..255, and Python's None as the empty      *)
(* sequence (a present integer n is <<n>>).                                *)
(***************************************************************************)
EXTENDS Integers, Sequences, FiniteSets, TLC

VARIABLES
    fs,        \* the file system the run sees: root kind, directories, files
    follow,    \* args.follow_symlinks
    pc,        \* position of main: "start", "walk", "built", "done"
    stack,     \* directories the traversal still has to list (top first)
    listing,   \* the listing of the directory on top of the stack, <<>> if not listed
    seen,      \* iter_media_files: the (st_dev, st_ino) keys already visited
    yielded,   \* the paths iter_media_files has yielded, in order
    items,     \* build_list: the records collected so far, in traversal order
    catalog,   \* build_list's return value (the sorted list)
    status,    \* main's exit status; -1 while running, 1 for an uncaught exception
    exc,       \* the exception that left main, "" if none
    run,       \* which run of the builder on this tree this is
    prevOut,   \* the manifests written by the earlier runs
    jdata,     \* JPEG scan: the bytes of the file
    scan,      \* JPEG scan: offset, position in the loop, marker, result
    jtrace,    \* JPEG scan: the markers dispatched so far, with their offsets
    input,     \* resolver: the file handed to the resolver
    dims,      \* resolver: the (width, height) it returned
    orient,    \* classifier: the label returned for dims
    rpc        \* resolver: "ready", "resolved", "raised", "classified"

vars == <<fs, follow, pc, stack, listing, seen, yielded, items, catalog, status, exc,
          run, prevOut, jdata, scan, jtrace, input, dims, orient, rpc>>

mainVars == <<fs, follow, pc, stack, listing, seen, yielded, items, catalog, status,
              exc, run, prevOut>>
jpegVars == <<jdata, scan, jtrace>>
resVars  == <<input, dims, orient, rpc>>

-----------------------------------------------------------------------------
(* Bounds of the model. *)

\* Longest path (in components below root) scandir still opens; deeper paths
\* fail as the operating system's path and symlink limits make them fail.
MaxDepth == 5
\* Runs of the builder on one tree.
MaxRuns == 2
\* Largest width or height handed directly to the classifier.
MaxDim == 9
\* Marker segments concatenated after the start-of-image marker of a JPEG input.
MaxSegs == 2

-----------------------------------------------------------------------------
(* Python values. *)

None == <<>>
Some(n) == <<n>>
NoDims == <<None, None>>
Dims(w, h) == <<Some(w), Some(h)>>

\* Body applied to the value of v, which is computed once
With(v, Body(_)) == CHOOSE out \in { Body(x) : x \in {v} } : TRUE

Min(a, b) == IF a < b THEN a ELSE b
Abs(n) == IF n < 0 THEN -n ELSE n

\* s[a:b] of Python for 0 <= a, clipped to the sequence
Slice(s, a, b) == SubSeq(s, a + 1, Min(b, Len(s)))

StartsWith(s, p) == Len(s) >= Len(p) /\ SubSeq(s, 1, Len(p)) = p

RECURSIVE FromBytesBig(_)
FromBytesBig(b) ==
    IF b = <<>> THEN 0
    ELSE 256 * FromBytesBig(SubSeq(b, 1, Len(b) - 1)) + b[Len(b)]

RECURSIVE FromBytesLittle(_)
FromBytesLittle(b) ==
    IF b = <<>> THEN 0 ELSE b[1] + 256 * FromBytesLittle(Tail(b))

\* int.from_bytes(b, 'little', signed=True) for 4 bytes: two's complement,
\* u - 2^32 when the top bit is set (written without a number above 2^31 - 1)
FromBytesLittleSigned(b) ==
    IF b[4] >= 128
    THEN (FromBytesLittle(<<b[1], b[2], b[3], b[4] - 128>>) - 2147483647) - 1
    ELSE FromBytesLittle(b)

-----------------------------------------------------------------------------
(* Characters and strings. *)

UpperAlpha == <<"A","B","C","D","E","F","G","H","I","J","K","L","M",
                "N","O","P","Q","R","S","T","U","V","W","X","Y","Z">>
LowerAlpha == <<"a","b","c","d","e","f","g","h","i","j","k","l","m",
                "n","o","p","q","r","s","t","u","v","w","x","y","z">>
Digits == <<"0","1","2","3","4","5","6","7","8","9">>

IndexIn(seq, c) == CHOOSE i \in 1..Len(seq) : seq[i] = c
IsIn(seq, c) == \E i \in 1..Len(seq) : seq[i] = c

\* the code point of a character (str comparison is by code point)
Ord(c) ==
    IF IsIn(UpperAlpha, c) THEN 64 + IndexIn(UpperAlpha, c)
    ELSE IF IsIn(LowerAlpha, c) THEN 96 + IndexIn(LowerAlpha, c)
    ELSE IF IsIn(Digits, c) THEN 47 + IndexIn(Digits, c)
    ELSE IF c = "\n" THEN 10
    ELSE IF c = " " THEN 32
    ELSE IF c = "-" THEN 45
    ELSE IF c = "." THEN 46
    ELSE IF c = "/" THEN 47
    ELSE 95

LowerChar(c) == IF IsIn(UpperAlpha, c) THEN LowerAlpha[IndexIn(UpperAlpha, c)] ELSE c

\* str.lower()
Lower(s) == [i \in 1..Len(s) |-> LowerChar(s[i])]

\* s < t and s <= t of Python strings
RECURSIVE StrLess(_, _)
StrLess(s, t) ==
    IF t = <<>> THEN FALSE
    ELSE IF s = <<>> THEN TRUE
    ELSE IF Ord(s[1]) # Ord(t[1]) THEN Ord(s[1]) < Ord(t[1])
    ELSE StrLess(Tail(s), Tail(t))

StrLeq(s, t) == \E a \in {s}, b \in {t} : a = b \/ StrLess(a, b)

\* str.rfind(c): the last 0-based index of c, -1 if absent
RFind(s, c) ==
    IF \E i \in 1..Len(s) : s[i] = c
    THEN (CHOOSE i \in 1..Len(s) : s[i] = c /\ \A j \in (i+1)..Len(s) : s[j] # c) - 1
    ELSE -1

\* str.lstrip('.')
RECURSIVE LStripDot(_)
LStripDot(s) == IF s # <<>> /\ s[1] = "." THEN LStripDot(Tail(s)) ELSE s

IsSpace(c) == c = " " \/ c = "\n"

\* str.strip()
RECURSIVE LStrip(_)
LStrip(s) == IF s # <<>> /\ IsSpace(s[1]) THEN LStrip(Tail(s)) ELSE s
RECURSIVE RStrip(_)
RStrip(s) ==
    IF s # <<>> /\ IsSpace(s[Len(s)]) THEN RStrip(SubSeq(s, 1, Len(s) - 1)) ELSE s
Strip(s) == With(LStrip(s), LAMBDA t : RStrip(t))

\* the 1-based index of the first c in s, 0 if absent
Find(s, c) ==
    IF \E i \in 1..Len(s) : s[i] = c
    THEN CHOOSE i \in 1..Len(s) : s[i] = c /\ \A j \in 1..(i-1) : s[j] # c
    ELSE 0

\* '/'.join(parts)
RECURSIVE JoinSlash(_)
JoinSlash(parts) ==
    IF parts = <<>> THEN <<>>
    ELSE IF Len(parts) = 1 THEN parts[1]
    ELSE parts[1] \o <<"/">> \o JoinSlash(Tail(parts))

-----------------------------------------------------------------------------
(* Names, extensions and the media filter. *)

Str_png  == <<"p","n","g">>
Str_jpg  == <<"j","p","g">>
Str_gif  == <<"g","i","f">>
Str_bmp  == <<"b","m","p">>
Str_mp4  == <<"m","p","4">>

IMAGE_EXTS ==
    { Str_png, Str_jpg, <<"j","p","e","g">>, Str_gif, <<"w","e","b","p">>,
      Str_bmp, <<"t","i","f","f">>, <<"t","i","f">>, <<"a","v","i","f">>,
      <<"h","e","i","c">>, <<"h","e","i","f">>, <<"i","c","o">> }

VIDEO_EXTS ==
    { Str_mp4, <<"w","e","b","m">>, <<"m","o","v">>, <<"m","k","v">>,
      <<"a","v","i">>, <<"w","m","v">>, <<"m","4","v">>, <<"m","p","g">>,
      <<"m","p","e","g">>, <<"3","g","p">>, <<"f","l","v">>, <<"o","g","g">> }

MEDIA_EXTS == IMAGE_EXTS \cup VIDEO_EXTS

ListJson == <<"l","i","s","t",".","j","s","o","n">>

\* IGNORE_NAMES, with Path(__file__).name the name the script runs under
IGNORE_NAMES(script) == { ListJson, script }

\* PurePath.suffix
Suffix(name) ==
    With(RFind(name, "."), LAMBDA i :
        IF 0 < i /\ i < Len(name) - 1 THEN SubSeq(name, i + 1, Len(name)) ELSE <<>>)

\* path.suffix.lower().lstrip('.')
Ext(name) == With(Lower(Suffix(name)), LAMBDA lowered : LStripDot(lowered))

\* Path.is_file(): a regular file, or a symbolic link that resolves to one
IsFile(entry) == entry.type \in {"file", "symfile"}

\* os.DirEntry.is_dir(): a directory, or a symbolic link that resolves to one
IsDir(entry) == entry.type \in {"dir", "symdir"}

\* a filter that checks the extension alone
is_media_file_by_extension(entry, script) ==
    IF ~IsFile(entry) THEN FALSE ELSE Ext(entry.name) \in MEDIA_EXTS

is_media_file(entry, script) ==
    IF ~IsFile(entry) THEN FALSE
    ELSE IF entry.name \in IGNORE_NAMES(script) THEN FALSE
    ELSE Ext(entry.name) \in MEDIA_EXTS

\* make_relative_posix: the components below root joined with "/"
make_relative_posix(path) == JoinSlash(path)

-----------------------------------------------------------------------------
(* The orientation classifier. *)

\* the classifier with the commented-out 'square' branch restored
infer_orientation_square(width, height) ==
    IF width = None \/ height = None THEN "unknown"
    ELSE IF width[1] > height[1] THEN "landscape"
    ELSE IF height[1] > width[1] THEN "portrait"
    ELSE "square"

infer_orientation(width, height) ==
    IF width = None \/ height = None THEN "unknown"
    ELSE IF width[1] > height[1] THEN "landscape"
    ELSE IF height[1] > width[1] THEN "portrait"
    ELSE "portrait"

-----------------------------------------------------------------------------
(* The JPEG marker scan of _fallback_get_image_size, one read per step.    *)
(* scan.pos is the file offset, scan.pc the place in the loops: "scan"     *)
(* (line 148), "fill" (line 155), "marker" (line 160), "done".             *)

SOI == 216
EOI == 217
SOS == 218
TEM == 1
RST0 == 208
RST7 == 215

\* f.read(n) at offset pos
ReadAt(data, pos, n) == IF pos >= Len(data) THEN <<>> ELSE Slice(data, pos, pos + n)

NoLength(marker) ==
    marker \in {SOI, EOI} \/ (RST0 <= marker /\ marker <= RST7) \/ marker = TEM

IsSOF(marker) ==
    \/ (192 <= marker /\ marker <= 195)
    \/ (197 <= marker /\ marker <= 199)
    \/ (201 <= marker /\ marker <= 203)
    \/ (205 <= marker /\ marker <= 207)

JpegStart == [pc |-> "scan", pos |-> 2, marker |-> 0, at |-> 0, res |-> NoDims]

JpegFindFF(data, s) ==
    LET b == ReadAt(data, s.pos, 1)
    IN  IF b = <<>> THEN [s EXCEPT !.pc = "done"]
        ELSE IF b # <<255>> THEN [s EXCEPT !.pos = @ + 1]
        ELSE [s EXCEPT !.pos = @ + 1, !.pc = "fill"]

JpegSkipFill(data, s) ==
    LET marker_byte == ReadAt(data, s.pos, 1)
    IN  IF marker_byte = <<>> THEN [s EXCEPT !.pc = "done"]
        ELSE IF marker_byte # <<255>> THEN
            [s EXCEPT !.pos = @ + 1, !.pc = "marker",
                      !.marker = marker_byte[1], !.at = s.pos]
        ELSE [s EXCEPT !.pos = @ + 1]

\* a seek that forgets the two length bytes already read
JpegSkipSegmentWholeLength(s, seg_length) ==
    [s EXCEPT !.pos = @ + 2 + seg_length, !.pc = "scan"]

\* f.seek(seg_length - 2, 1)
JpegSkipSegment(s, seg_length) ==
    [s EXCEPT !.pos = @ + 2 + (seg_length - 2), !.pc = "scan"]

\* the start-of-frame payload: height at data[1:3], width at data[3:5]
JpegFrameSize(data) ==
    Dims(FromBytesBig(Slice(data, 3, 5)), FromBytesBig(Slice(data, 1, 3)))

JpegSegment(data, s) ==
    IF NoLength(s.marker) THEN [s EXCEPT !.pc = "scan"]
    ELSE IF s.marker = SOS THEN [s EXCEPT !.pc = "done"]
    ELSE
        LET length_bytes == ReadAt(data, s.pos, 2)
            seg_length == FromBytesBig(length_bytes)
        IN  IF Len(length_bytes) # 2 THEN
                [s EXCEPT !.pos = @ + Len(length_bytes), !.pc = "done"]
            ELSE IF seg_length < 2 THEN
                [s EXCEPT !.pos = @ + 2, !.pc = "done"]
            ELSE IF IsSOF(s.marker) THEN
                LET payload == ReadAt(data, s.pos + 2, seg_length - 2)
                IN  [s EXCEPT !.pos = @ + 2 + Len(payload), !.pc = "done",
                              !.res = IF Len(payload) >= 5
                                      THEN JpegFrameSize(payload) ELSE NoDims]
            ELSE JpegSkipSegment(s, seg_length)

JpegStep(data, s) ==
    CASE s.pc = "scan"   -> JpegFindFF(data, s)
      [] s.pc = "fill"   -> JpegSkipFill(data, s)
      [] s.pc = "marker" -> JpegSegment(data, s)
      [] OTHER           -> s

\* the scan run to its end (the state after each step is computed once)
RECURSIVE JpegRun(_, _)
JpegRun(data, s) ==
    IF s.pc = "done" THEN s.res
    ELSE With(JpegStep(data, s), LAMBDA t : JpegRun(data, t))

-----------------------------------------------------------------------------
(* The header sniffers and the resolver. *)

PngSignature == <<137, 80, 78, 71, 13, 10, 26, 10>>
Gif87a == <<71, 73, 70, 56, 55, 97>>
Gif89a == <<71, 73, 70, 56, 57, 97>>
BmpSignature == <<66, 77>>
JpegSignature == <<255, SOI>>

HeaderLen == 32

\* the body of _fallback_get_image_size once the file is open
SniffHeader(data) ==
    With(Slice(data, 0, HeaderLen), LAMBDA header :
    With(Slice(data, 0, 26), LAMBDA dib :
        IF StartsWith(header, PngSignature) /\ Len(header) >= 24 THEN
            Dims(FromBytesBig(Slice(header, 16, 20)), FromBytesBig(Slice(header, 20, 24)))
        ELSE IF Slice(header, 0, 6) \in {Gif87a, Gif89a} /\ Len(header) >= 10 THEN
            Dims(FromBytesLittle(Slice(header, 6, 8)), FromBytesLittle(Slice(header, 8, 10)))
        ELSE IF StartsWith(header, BmpSignature) /\ Len(dib) >= 26 THEN
            Dims(Abs(FromBytesLittleSigned(Slice(dib, 18, 22))),
                 Abs(FromBytesLittleSigned(Slice(dib, 22, 26))))
        ELSE IF StartsWith(header, JpegSignature) THEN JpegRun(data, JpegStart)
        ELSE NoDims))

\* path.open('rb') raising is caught by the except clause of line 184
fallback_get_image_size(f) == IF ~f.readable THEN NoDims ELSE SniffHeader(f.bytes)

\* f.pil is what Image.open(path).size gives, NoDims when Pillow raises
get_image_size(pillow, f) ==
    IF pillow /\ f.pil # NoDims THEN f.pil ELSE fallback_get_image_size(f)

\* int(s): optional surrounding white space, optional sign, decimal digits
RECURSIVE DecimalValue(_)
DecimalValue(q) ==
    IF q = <<>> THEN 0
    ELSE 10 * DecimalValue(SubSeq(q, 1, Len(q) - 1)) + (Ord(q[Len(q)]) - 48)

IntParse(s) ==
    With(Strip(s), LAMBDA t :
    With(t # <<>> /\ t[1] \in {"-", "+"}, LAMBDA signed :
    With(IF signed THEN Tail(t) ELSE t, LAMBDA d :
        IF d = <<>> \/ \E i \in 1..Len(d) : ~IsIn(Digits, d[i]) THEN None
        ELSE Some(IF signed /\ t[1] = "-" THEN -DecimalValue(d)
                  ELSE DecimalValue(d)))))

\* the exception subprocess.run raises for each way the probe can fail
ProbeException(how) ==
    CASE how = "absent"      -> "FileNotFoundError"
      [] how = "notrunnable" -> "PermissionError"
      [] how = "nonzero"     -> "CalledProcessError"
      [] how = "timeout"     -> "TimeoutExpired"
      [] OTHER               -> ""

\* except (FileNotFoundError, subprocess.SubprocessError)
ProbeCaught(e) == e \in {"FileNotFoundError", "CalledProcessError", "TimeoutExpired"}

\* proc.stdout.strip().split('\n')[0].strip()
FirstLine(out) ==
    With(Strip(out), LAMBDA t :
    With(Find(t, "\n"), LAMBDA n :
        Strip(IF n = 0 THEN t ELSE SubSeq(t, 1, n - 1))))

\* a parse that keeps whichever half converted
ParseProbeLinePartial(out) ==
    With(FirstLine(out), LAMBDA line :
    With(Find(line, "x"), LAMBDA k :
        IF k = 0 THEN NoDims
        ELSE <<IntParse(SubSeq(line, 1, k - 1)),
               IntParse(SubSeq(line, k + 1, Len(line)))>>))

\* lines 221-230: the parse of the probe's output
ParseProbeLine(out) ==
    With(FirstLine(out), LAMBDA line :
    With(Find(line, "x"), LAMBDA k :
        IF k = 0 THEN NoDims
        ELSE With(IntParse(SubSeq(line, 1, k - 1)), LAMBDA w :
             With(IntParse(SubSeq(line, k + 1, Len(line))), LAMBDA h :
                 IF w = None \/ h = None THEN NoDims ELSE <<w, h>>))))

\* [raised, dims]: raised names the exception that leaves the function
get_video_size(f) ==
    LET e == ProbeException(f.probe.how)
    IN  IF e # "" THEN
            IF ProbeCaught(e) THEN [raised |-> "", dims |-> NoDims]
            ELSE [raised |-> e, dims |-> NoDims]
        ELSE [raised |-> "", dims |-> ParseProbeLine(f.probe.out)]

\* the resolver of get_media_metadata, lines 252-257
ResolveSize(pillow, name, f) ==
    With(Ext(name), LAMBDA ext :
        IF ext \in IMAGE_EXTS THEN [raised |-> "", dims |-> get_image_size(pillow, f)]
        ELSE IF ext \in VIDEO_EXTS THEN get_video_size(f)
        ELSE [raised |-> "", dims |-> NoDims])

\* get_media_metadata for the file at the given path below root
get_media_metadata(pillow, path, f) ==
    With(ResolveSize(pillow, path[Len(path)], f), LAMBDA r :
        [raised |-> r.raised,
         rec |-> [filename |-> make_relative_posix(path),
                  orientation |-> infer_orientation(r.dims[1], r.dims[2])]])

-----------------------------------------------------------------------------
(* Inputs of the JPEG scan: the start-of-image marker followed by up to    *)
(* MaxSegs segments, cut off at every length.                              *)

JpegSegments ==
    { <<255, 217>>,                          \* EOI, no length field
      <<255, 255, 208>>,                     \* fill byte, then RST0
      <<255, 1>>,                            \* TEM
      <<255, 218>>,                          \* SOS
      <<0>>,                                 \* a byte outside any segment
      <<255, 224, 0, 2>>,                    \* APP0, empty payload
      <<255, 224, 0, 4, 255, 192>>,          \* APP0 whose payload reads FF C0
      <<255, 224, 0, 0>>,                    \* APP0, declared length 0
      <<255, 196, 0, 3, 9>>,                 \* DHT (C4 is no start of frame)
      <<255, 200, 0, 7, 8, 0, 9, 0, 9>>,     \* JPG (C8 is no start of frame)
      <<255, 192, 0, 7, 8, 0, 2, 0, 3>>,     \* SOF0, height 2, width 3
      <<255, 207, 0, 8, 8, 1, 0, 0, 1, 7>>,  \* SOF15, height 256, width 1
      <<255, 194, 0, 4, 1, 1>> }             \* SOF2, declared payload of 2 bytes

RECURSIVE SegmentSeqs(_)
SegmentSeqs(n) ==
    IF n = 0 THEN { <<>> }
    ELSE LET shorter == SegmentSeqs(n - 1)
         IN  shorter \cup { s \o g : s \in shorter, g \in JpegSegments }

Prefixes(s) == { SubSeq(s, 1, n) : n \in 0..Len(s) }

JpegBodies == UNION { Prefixes(b) : b \in SegmentSeqs(MaxSegs) }

JpegFiles == { JpegSignature \o b : b \in JpegBodies }

-----------------------------------------------------------------------------
(* Idle values of the variables a specification does not use. *)

NoFs == [root |-> "missing", script |-> <<>>, pillow |-> FALSE, writable |-> FALSE,
         ents |-> <<>>, files |-> <<>>]

MainIdle ==
    /\ fs = NoFs /\ follow = FALSE /\ pc = "idle" /\ stack = <<>> /\ listing = <<>>
    /\ seen = {}
    /\ yielded = <<>> /\ items = <<>> /\ catalog = <<>> /\ status = -1
    /\ exc = "" /\ run = 0 /\ prevOut = <<>>

JpegIdle == jdata = <<>> /\ scan = [JpegStart EXCEPT !.pc = "idle"] /\ jtrace = <<>>

NoInput == [kind |-> "none"]

ResIdle == input = NoInput /\ dims = NoDims /\ orient = "" /\ rpc = "idle"

-----------------------------------------------------------------------------
(* The JPEG scan as a state machine. *)

JpegInit ==
    /\ jdata \in JpegFiles
    /\ scan = JpegStart
    /\ jtrace = <<>>
    /\ MainIdle /\ ResIdle

\* line 148: look for the next FF
FindFF ==
    /\ scan.pc = "scan"
    /\ scan' = JpegFindFF(jdata, scan)
    /\ UNCHANGED <<jdata, jtrace, mainVars, resVars>>

\* line 155: skip fill bytes up to the marker byte
SkipFill ==
    /\ scan.pc = "fill"
    /\ scan' = JpegSkipFill(jdata, scan)
    /\ UNCHANGED <<jdata, jtrace, mainVars, resVars>>

\* lines 160-183: dispatch on the marker
Segment ==
    /\ scan.pc = "marker"
    /\ scan' = JpegSegment(jdata, scan)
    /\ jtrace' = Append(jtrace, [marker |-> scan.marker, at |-> scan.at])
    /\ UNCHANGED <<jdata, mainVars, resVars>>

JpegNext == FindFF \/ SkipFill \/ Segment

\* the loop runs on: each iteration follows the last without waiting
SpecJpeg == JpegInit /\ [][JpegNext]_vars /\ WF_vars(JpegNext)

-----------------------------------------------------------------------------
(* C9: the marker scan. *)

\* the byte at a 0-based file offset
ByteAt(off) == jdata[off + 1]

\* the offset of the first byte that is not FF and follows an FF at or after
\* offset from; -1 when the file holds none
NextMarker(from) ==
    LET cand == { q \in (from + 1)..(Len(jdata) - 1) :
                    ByteAt(q) # 255 /\ ByteAt(q - 1) = 255 }
    IN  IF cand = {} THEN -1 ELSE CHOOSE q \in cand : \A r \in cand : q <= r

\* the declared length of the segment whose marker byte is at offset at
HasLength(at) == at + 2 <= Len(jdata) - 1
DeclaredLength(at) == 256 * ByteAt(at + 1) + ByteAt(at + 2)

\* where the scan resumes after the marker e it did not stop at
ResumeAfter(e) ==
    IF NoLength(e.marker) THEN e.at + 1 ELSE e.at + 1 + DeclaredLength(e.at)

\* Every dispatched marker is the first one at or after the place the scan
\* resumed: offset 2 at first, the byte after a length-less marker, and
\* exactly (declared length - 2) bytes after the length field of any other
\* segment. The scan goes on only past markers that are neither start of
\* scan nor start of frame and whose declared length is at least 2.
JpegTraceOk ==
    \A i \in 1..Len(jtrace) :
        /\ jtrace[i].at = NextMarker(IF i = 1 THEN 2 ELSE ResumeAfter(jtrace[i - 1]))
        /\ i < Len(jtrace) =>
              /\ jtrace[i].marker # SOS
              /\ ~IsSOF(jtrace[i].marker)
              /\ ~NoLength(jtrace[i].marker) =>
                    HasLength(jtrace[i].at) /\ DeclaredLength(jtrace[i].at) >= 2

JpegLast == jtrace[Len(jtrace)]

\* the last marker dispatched is a start of frame holding at least five
\* payload bytes, declared and present
JpegFrameReached ==
    /\ jtrace # <<>>
    /\ IsSOF(JpegLast.marker)
    /\ HasLength(JpegLast.at)
    /\ DeclaredLength(JpegLast.at) >= 7
    /\ JpegLast.at + 7 <= Len(jdata) - 1

\* height is stored before width
JpegFrameDims ==
    Dims(256 * ByteAt(JpegLast.at + 6) + ByteAt(JpegLast.at + 7),
         256 * ByteAt(JpegLast.at + 4) + ByteAt(JpegLast.at + 5))

JpegStreamEnded == scan.pos >= Len(jdata)

JpegResultOk ==
    /\ scan.res # NoDims <=> JpegFrameReached
    /\ JpegFrameReached => scan.res = JpegFrameDims
    /\ scan.res = NoDims =>
          \/ JpegStreamEnded
          \/ JpegLast.marker = SOS
          \/ ~NoLength(JpegLast.marker) /\ DeclaredLength(JpegLast.at) < 2
          \/ IsSOF(JpegLast.marker) /\ DeclaredLength(JpegLast.at) < 7

\* C9 (as amended): on every input that starts with FF D8 the scan ends; it
\* skips length-less markers, skips a non-frame segment of declared length
\* L >= 2 by exactly L - 2 bytes, and returns the (width, height) of the
\* first start of frame reached, height stored first, when that segment
\* declares and holds at least five payload bytes; in every other case
\* (start of scan first, end of stream, a declared length below 2, a start
\* of frame with fewer than five payload bytes) the result is undetermined.
C9_ScanAmended ==
    /\ <>(scan.pc = "done")
    /\ [](JpegTraceOk)
    /\ [](scan.pc = "done" => JpegResultOk)

\* C9 witness: a finished scan that skipped an APP0 segment whose payload
\* reads FF C0 and then took the size from a later start of frame.
C9_Witness ==
    /\ scan.pc = "done"
    /\ scan.res = Dims(3, 2)
    /\ \E i \in 1..Len(jtrace) :
          jtrace[i].marker = 224 /\ DeclaredLength(jtrace[i].at) = 4

\* C9 as stated: every marker before the first start of frame is skipped
\* and the first start of frame gives the size, so a scan that ends
\* undetermined has met a start of scan or has run out of bytes.
C9_ScanOriginal ==
    (scan.pc = "done" /\ scan.res = NoDims) =>
        (JpegStreamEnded \/ (jtrace # <<>> /\ JpegLast.marker = SOS))

-----------------------------------------------------------------------------
(* Inputs of the resolver: image files by content, video files by what     *)
(* the probe does.                                                         *)

\* four-byte fields as stored in the file
BigQuads == { <<0,0,0,0>>, <<0,0,0,2>>, <<0,0,1,0>>, <<127,255,255,255>> }
LittleQuads == { <<0,0,0,0>>, <<3,0,0,0>>, <<0,1,0,0>>, <<254,255,255,255>> }
LittlePairs == { <<0,0>>, <<2,0>>, <<0,1>> }

PngFile(w, h) == PngSignature \o <<0,0,0,13, 73,72,68,82>> \o w \o h
GifFile(w, h) == Gif89a \o w \o h
BmpFile(w, h) == BmpSignature \o <<0,0,0,0, 0,0,0,0, 0,0,0,0, 40,0,0,0>> \o w \o h

ImageContents ==
    { PngFile(w, h) : w \in BigQuads, h \in BigQuads }
    \cup { SubSeq(PngFile(<<0,0,0,2>>, <<0,0,0,3>>), 1, n) : n \in {0, 8, 23} }
    \cup { GifFile(w, h) : w \in LittlePairs, h \in LittlePairs }
    \cup { SubSeq(GifFile(<<2,0>>, <<2,0>>), 1, 9), Gif87a \o <<5,0,4,0>> }
    \cup { BmpFile(w, h) : w \in LittleQuads, h \in LittleQuads }
    \cup { SubSeq(BmpFile(<<3,0,0,0>>, <<3,0,0,0>>), 1, 25) }
    \cup { JpegSignature \o b : b \in UNION { Prefixes(g) : g \in JpegSegments } }
    \cup { <<1, 2, 3>> }

ImageInputs ==
    { [kind |-> "image", pillow |-> p,
       file |-> [bytes |-> c, readable |-> r, pil |-> q]] :
         p \in BOOLEAN, c \in ImageContents, r \in BOOLEAN,
         q \in {NoDims, Dims(4, 3)} }

ProbeOutputs ==
    { <<"1","6","x","9","\n">>, <<"9","x","1","6">>, <<>>, <<"x">>,
      <<"a","x","1">>, <<"1","x">>, <<"0","x","0","\n">>, <<"-","1","x","2">>,
      <<"1","x","2","x","3">>, <<"\n","2","x","1","\n">>,
      <<"1","\n","2","x","1">>, <<" ","2"," ","x"," ","1"," ","\n">>,
      <<"N","/","A">>, <<"2","x","2","\n","4","x","1","\n">> }

ProbeFailures == {"absent", "notrunnable", "nonzero", "timeout"}

VideoInputs ==
    { [kind |-> "video", file |-> [probe |-> [how |-> "ok", out |-> o]]] :
         o \in ProbeOutputs }
    \cup { [kind |-> "video", file |-> [probe |-> [how |-> f, out |-> <<>>]]] :
         f \in ProbeFailures }

-----------------------------------------------------------------------------
(* The resolver and the classifier on one file. *)

ResolveInit ==
    /\ input \in ImageInputs \cup VideoInputs
    /\ dims = NoDims /\ orient = "" /\ rpc = "ready"
    /\ MainIdle /\ JpegIdle

\* get_image_size(path)
ResolveImage ==
    /\ rpc = "ready" /\ input.kind = "image"
    /\ dims' = get_image_size(input.pillow, input.file)
    /\ rpc' = "resolved"
    /\ UNCHANGED <<input, orient, mainVars, jpegVars>>

\* get_video_size(path)
ResolveVideo ==
    /\ rpc = "ready" /\ input.kind = "video"
    /\ LET r == get_video_size(input.file)
       IN  /\ dims' = r.dims
           /\ rpc' = IF r.raised = "" THEN "resolved" ELSE "raised"
    /\ UNCHANGED <<input, orient, mainVars, jpegVars>>

\* infer_orientation(width, height) on what the resolver returned
Classify ==
    /\ rpc = "resolved"
    /\ orient' = infer_orientation(dims[1], dims[2])
    /\ rpc' = "classified"
    /\ UNCHANGED <<input, dims, mainVars, jpegVars>>

ResolveNext == ResolveImage \/ ResolveVideo \/ Classify

SpecResolve == ResolveInit /\ [][ResolveNext]_vars

\* the classifier on every pair of optional integers up to MaxDim
OptDims == { None } \cup { Some(n) : n \in (-MaxDim)..MaxDim }

ClassifyInit ==
    /\ input = [kind |-> "pair"]
    /\ dims \in OptDims \X OptDims
    /\ orient = "" /\ rpc = "resolved"
    /\ MainIdle /\ JpegIdle

SpecClassify == ClassifyInit /\ [][Classify]_vars

-----------------------------------------------------------------------------
(* C6: the orientation classifier. *)

-----------------------------------------------------------------------------
(* C10: the shape of the resolver's result. *)

BothPresent == dims[1] # None /\ dims[2] # None

\* C10 (as amended): the resolver returns both width and height or neither;
\* the values the image resolver returns are never negative (zero occurs),
\* the video resolver returns whatever integers the probe's line holds.
C10_PairAmended ==
    rpc \in {"resolved", "classified"} =>
        \/ dims = NoDims
        \/ BothPresent /\ (input.kind = "image" => dims[1][1] >= 0 /\ dims[2][1] >= 0)

\* C10 witness: a PNG header holding width 0 has been resolved to (0, 2).
C10_Witness ==
    rpc = "resolved" /\ input.kind = "image" /\ dims = Dims(0, 2)

\* C10 as stated: the result is absent or a pair of positive integers.
C10_PairOriginal ==
    rpc \in {"resolved", "classified"} =>
        \/ dims = NoDims
        \/ BothPresent /\ dims[1][1] > 0 /\ dims[2][1] > 0

-----------------------------------------------------------------------------
(* The file systems the builder is run on.  Directory 1 is the root; an    *)
(* entry names a directory or a file by its inode.                         *)

F(name, ino)  == [name |-> name, type |-> "file", ino |-> ino]
D(name, ino)  == [name |-> name, type |-> "dir", ino |-> ino]
LF(name, ino) == [name |-> name, type |-> "symfile", ino |-> ino]
LD(name, ino) == [name |-> name, type |-> "symdir", ino |-> ino]
Broken(name)  == [name |-> name, type |-> "broken", ino |-> 0]

NoProbe == [how |-> "absent", out |-> <<>>]

Image(bytes) ==
    [bytes |-> bytes, readable |-> TRUE, pil |-> NoDims, probe |-> NoProbe, was |-> "media"]
Video(how, out) ==
    [bytes |-> <<>>, readable |-> TRUE, pil |-> NoDims,
     probe |-> [how |-> how, out |-> out], was |-> "media"]
Other(was) ==
    [bytes |-> <<91, 93, 10>>, readable |-> TRUE, pil |-> NoDims, probe |-> NoProbe, was |-> was]

Name_aPNG == <<"a",".","P","N","G">>
Name_bjpg == <<"b",".","j","p","g">>
Name_Bpng == <<"B",".","p","n","g">>
Name_Agif == <<"A",".","g","i","f">>
Name_agif == <<"a",".","g","i","f">>
Name_zpng == <<"z",".","p","n","g">>
Name_cbmp == <<"c",".","b","m","p">>
Name_kpng == <<"k",".","p","n","g">>
Name_vmp4 == <<"v",".","m","p","4">>
Name_notes == <<"n","o","t","e","s",".","t","x","t">>
Name_listpng == <<"l","i","s","t",".","p","n","g">>
Name_script == <<"u","p","d","a","t","e","l","i","s","t",".","p","y">>
Name_scriptmp4 == <<"u","p","d","a","t","e","l","i","s","t",".","m","p","4">>
Name_d == <<"d">>
Name_l == <<"l">>
Name_up == <<"u","p">>
Name_sub == <<"s","u","b">>

Png2x3 == PngFile(<<0,0,0,2>>, <<0,0,0,3>>)
Png3x2 == PngFile(<<0,0,0,3>>, <<0,0,0,2>>)
Gif2x2 == GifFile(<<2,0>>, <<2,0>>)
Bmp3x2 == BmpFile(<<3,0,0,0>>, <<254,255,255,255>>)

Tree(ents, files) ==
    [root |-> "dir", script |-> Name_script, pillow |-> FALSE, writable |-> TRUE,
     ents |-> ents, files |-> files]

\* a PNG, a corrupt JPEG and two names equal under case folding
TreeFlat ==
    Tree(<< { F(Name_aPNG, 1), F(Name_bjpg, 2), F(Name_Agif, 3), F(Name_agif, 4) } >>,
         << Image(Png2x3), Image(<<1, 2, 3>>), Image(Gif2x2), Image(Png3x2) >>)

\* d is a directory, l a link to it; d/up links back to the root; d/k.png
\* links to d/z.png; d/sub is a directory below d holding a dangling link
TreeLinks ==
    Tree(<< { D(Name_d, 2), LD(Name_l, 2), F(Name_Bpng, 1), F(Name_notes, 4) },
            { F(Name_zpng, 2), LF(Name_kpng, 2), LD(Name_up, 1), D(Name_sub, 3) },
            { F(Name_cbmp, 3), Broken(Name_agif) } >>,
         << Image(Png3x2), Image(Png2x3), Image(Bmp3x2), Other("other") >>)

\* a video beside two images, for each thing the probe can do
TreeVideo(how, out) ==
    Tree(<< { F(Name_aPNG, 1), F(Name_vmp4, 2), D(Name_sub, 2) },
            { F(Name_zpng, 3) } >>,
         << Image(Png2x3), Video(how, out), Image(Png3x2) >>)

VideoTrees ==
    { TreeVideo(h, <<>>) : h \in ProbeFailures }
    \cup { TreeVideo("ok", o) : o \in { <<"1","6","x","9","\n">>, <<"N","/","A">> } }

\* the script runs under a media extension; list.json exists in the root and
\* in sub; list.png is a manifest of an earlier run that was renamed
TreeReserved ==
    [ Tree(<< { F(ListJson, 1), F(Name_scriptmp4, 2), F(Name_listpng, 3),
                F(Name_zpng, 4), D(Name_sub, 2) },
              { F(ListJson, 5), F(Name_script, 6), F(Name_cbmp, 7) } >>,
           << Other("manifest"), Other("script"), Other("manifest"), Image(Png2x3),
              Other("manifest"), Other("other"), Image(Bmp3x2) >>)
      EXCEPT !.script = Name_scriptmp4 ]

\* Pillow is installed: it reads one file and raises on the other
TreePillow ==
    [ Tree(<< { F(Name_aPNG, 1), F(Name_bjpg, 2) } >>,
           << [Image(<<1, 2, 3>>) EXCEPT !.pil = Dims(4, 3)],
              [Image(Png2x3) EXCEPT !.readable = FALSE] >>)
      EXCEPT !.pillow = TRUE ]

TreeEmpty == Tree(<< {} >>, <<>>)

\* the root cannot be written to
TreeReadOnly == [ Tree(<< { F(Name_aPNG, 1) } >>, << Image(Png2x3) >>)
                  EXCEPT !.writable = FALSE ]

TreeMissing == [ TreeEmpty EXCEPT !.root = "missing" ]
TreeNotDir  == [ TreeEmpty EXCEPT !.root = "file" ]

Trees ==
    { TreeFlat, TreeLinks, TreeReserved, TreePillow, TreeEmpty, TreeReadOnly,
      TreeMissing, TreeNotDir } \cup VideoTrees

-----------------------------------------------------------------------------
(* The traversal, the catalog and main. *)

\* the orders in which a directory listing can enumerate the entries S
RECURSIVE Orders(_)
Orders(S) ==
    IF S = {} THEN { <<>> }
    ELSE UNION { { <<e>> \o rest : rest \in Orders(S \ {e}) } : e \in S }

\* scandir opens the directory at this path
Listable(path) == Len(path) <= MaxDepth

\* a visited test that never finds the key
AlreadySeenNever(key, visited) == FALSE

\* line 87: key in seen
AlreadySeen(key, visited) == key \in visited

\* os.walk(followlinks=True): the sub-directories it descends into
WalkChildren(entries) == { e \in entries : IsDir(e) }

\* os.walk: the names it reports as files
WalkFiles(entries) == { e \in entries : ~IsDir(e) }

\* a recursion that also enters links to directories
RglobChildrenFollowing(entries) == { e \in entries : IsDir(e) }

\* Path.rglob('*'): "**" descends into directories that are no symbolic links
RglobChildren(entries) == { e \in entries : e.type = "dir" }

Frames(path, order) ==
    [i \in 1..Len(order) |-> [path |-> Append(path, order[i].name), ino |-> order[i].ino]]

\* the entries of a listing that pass is_media_file, in the order listed
MediaOf(order) == SelectSeq(order, LAMBDA entry : is_media_file(entry, fs.script))

\* lines 270-273: the record get_media_metadata gives for each media entry
\* of one directory, in the order listed
Metadata(path, media) ==
    [i \in 1..Len(media) |->
        get_media_metadata(fs.pillow, Append(path, media[i].name),
                           fs.files[media[i].ino])]

\* the first entry whose metadata raised, 0 if none did
FirstRaised(metas) ==
    IF \A i \in 1..Len(metas) : metas[i].raised = "" THEN 0
    ELSE CHOOSE i \in 1..Len(metas) :
            /\ metas[i].raised # ""
            /\ \A j \in 1..(i - 1) : metas[j].raised = ""

\* One directory's media entries in the order listed: each is yielded and
\* handed to get_media_metadata; the first exception ends the comprehension
\* of build_list.
Harvest(dir, path, media, metas, stop) ==
    [ys |-> [i \in 1..(IF stop = 0 THEN Len(media) ELSE stop) |->
                [path |-> Append(path, media[i].name), dir |-> dir,
                 name |-> media[i].name, ino |-> media[i].ino]],
     recs |-> [i \in 1..(IF stop = 0 THEN Len(media) ELSE stop - 1) |->
                 metas[i].rec],
     raised |-> IF stop = 0 THEN "" ELSE metas[stop].raised]

\* a key that compares the names as written
SortKeyCaseSensitive(rec) == rec.filename

\* line 274: key=lambda d: d['filename'].lower()
SortKey(rec) == Lower(rec.filename)

\* list.sort: a stable sort, here by insertion behind the equal keys
SortInsert(sorted, rec) ==
    LET k == Cardinality({ i \in 1..Len(sorted) : StrLeq(SortKey(sorted[i]), SortKey(rec)) })
    IN  SubSeq(sorted, 1, k) \o <<rec>> \o SubSeq(sorted, k + 1, Len(sorted))

RECURSIVE SortItems(_)
SortItems(recs) ==
    IF recs = <<>> THEN <<>>
    ELSE With(SortItems(SubSeq(recs, 1, Len(recs) - 1)), LAMBDA sorted :
             SortInsert(sorted, recs[Len(recs)]))

HasManifest == \E e \in fs.ents[1] : e.name = ListJson

\* the file system after write_json has written list.json at the root
WithManifest ==
    IF HasManifest THEN fs
    ELSE [fs EXCEPT !.ents[1] = @ \cup { F(ListJson, Len(fs.files) + 1) },
                    !.files = Append(@, Other("manifest"))]

Init ==
    /\ fs \in Trees
    /\ follow \in BOOLEAN
    /\ pc = "start" /\ status = -1 /\ exc = ""
    /\ stack = <<>> /\ listing = <<>> /\ seen = {}
    /\ yielded = <<>> /\ items = <<>> /\ catalog = <<>>
    /\ run = 1 /\ prevOut = <<>>
    /\ JpegIdle /\ ResIdle

\* main, lines 306-313: the two fatal root conditions
CheckRoot ==
    /\ pc = "start"
    /\ IF fs.root = "missing" THEN
           /\ status' = 2 /\ pc' = "done" /\ UNCHANGED stack
       ELSE IF fs.root # "dir" THEN
           /\ status' = 3 /\ pc' = "done" /\ UNCHANGED stack
       ELSE
           /\ pc' = "walk" /\ stack' = << [path |-> <<>>, ino |-> 1] >>
           /\ UNCHANGED status
    /\ UNCHANGED <<fs, follow, listing, seen, yielded, items, catalog, exc, run,
                   prevOut, jpegVars, resVars>>

\* os.walk and rglob list the next directory (scandir), in whatever order
\* the file system gives; a directory scandir cannot open is passed over
List ==
    /\ pc = "walk" /\ stack # <<>> /\ listing = <<>>
    /\ LET top == Head(stack)
           entries == fs.ents[top.ino]
       IN  IF ~Listable(top.path) THEN
               stack' = Tail(stack) /\ UNCHANGED listing
           ELSE
               /\ UNCHANGED stack
               /\ \E files \in Orders(IF follow THEN WalkFiles(entries) ELSE entries),
                     dirs \in Orders(IF follow THEN WalkChildren(entries)
                                     ELSE RglobChildren(entries)) :
                     listing' = << [files |-> files, dirs |-> dirs] >>
    /\ UNCHANGED <<fs, follow, pc, seen, yielded, items, catalog, status, exc,
                   run, prevOut, jpegVars, resVars>>

\* what the listed directory adds to the run, and where the walk goes next
Collect ==
    LET top == Head(stack) IN
    \E media \in { MediaOf(listing[1].files) } :
    \E metas \in { Metadata(top.path, media) } :
    \E got \in { Harvest(top.ino, top.path, media, metas, FirstRaised(metas)) } :
        /\ yielded' = yielded \o got.ys
        /\ items' = items \o got.recs
        /\ stack' = Frames(top.path, listing[1].dirs) \o Tail(stack)
        /\ listing' = <<>>
        /\ IF got.raised = "" THEN UNCHANGED <<pc, status, exc>>
           ELSE pc' = "done" /\ status' = 1 /\ exc' = got.raised

\* lines 84-96, a directory not visited before
FollowVisit ==
    /\ pc = "walk" /\ follow /\ listing # <<>>
    /\ ~AlreadySeen(Head(stack).ino, seen)
    /\ seen' = seen \cup {Head(stack).ino}
    /\ Collect
    /\ UNCHANGED <<fs, follow, catalog, run, prevOut, jpegVars, resVars>>

\* lines 87-89, a directory visited before: dirnames is cleared and nothing
\* below it is walked
FollowPrune ==
    /\ pc = "walk" /\ follow /\ listing # <<>>
    /\ AlreadySeen(Head(stack).ino, seen)
    /\ stack' = Tail(stack)
    /\ listing' = <<>>
    /\ UNCHANGED <<fs, follow, pc, seen, yielded, items, catalog, status, exc,
                   run, prevOut, jpegVars, resVars>>

\* lines 98-100: the entries of one directory of root.rglob('*')
RglobVisit ==
    /\ pc = "walk" /\ ~follow /\ listing # <<>>
    /\ Collect
    /\ UNCHANGED <<fs, follow, seen, catalog, run, prevOut, jpegVars, resVars>>

\* build_list, lines 274-275: sort and return
Build ==
    /\ pc = "walk" /\ stack = <<>>
    /\ catalog' = SortItems(items)
    /\ pc' = "built"
    /\ UNCHANGED <<fs, follow, stack, listing, seen, yielded, items, status, exc, run,
                   prevOut, jpegVars, resVars>>

\* main, lines 316-319: write_json, then return 0; opening list.json for
\* writing raises OSError when the root cannot be written to
Write ==
    /\ pc = "built"
    /\ pc' = "done"
    /\ IF fs.writable THEN
           /\ fs' = WithManifest
           /\ prevOut' = Append(prevOut, catalog)
           /\ status' = 0
           /\ UNCHANGED exc
       ELSE
           /\ status' = 1 /\ exc' = "OSError"
           /\ UNCHANGED <<fs, prevOut>>
    /\ UNCHANGED <<follow, stack, listing, seen, yielded, items, catalog, run,
                   jpegVars, resVars>>

\* the builder is started again on the tree it left
Rerun ==
    /\ pc = "done" /\ status = 0 /\ run < MaxRuns
    /\ run' = run + 1
    /\ pc' = "start" /\ status' = -1
    /\ stack' = <<>> /\ seen' = {} /\ yielded' = <<>> /\ items' = <<>> /\ catalog' = <<>>
    /\ UNCHANGED <<fs, follow, listing, exc, prevOut, jpegVars, resVars>>

Next == CheckRoot \/ List \/ FollowVisit \/ FollowPrune \/ RglobVisit \/ Build \/ Write \/ Rerun

\* the run is one thread of control: it takes its next step whenever it has one
Spec == Init /\ [][Next]_vars /\ WF_vars(Next)

-----------------------------------------------------------------------------
(* What the claims about a run speak of. *)

\* the directories reached from S through entries of the given types
RECURSIVE ReachDirs(_, _)
ReachDirs(S, types) ==
    LET more == S \cup { e.ino : e \in { x \in UNION { fs.ents[d] : d \in S } :
                                            x.type \in types } }
    IN  IF more = S THEN S ELSE ReachDirs(more, types)

\* how often the entry called name of directory dir has been yielded
TimesYielded(dir, name) ==
    Cardinality({ i \in 1..Len(yielded) : yielded[i].dir = dir /\ yielded[i].name = name })

\* the path leaves the real directories: one of its directory components
\* is a symbolic link
RECURSIVE ThroughLink(_, _)
ThroughLink(dir, path) ==
    IF Len(path) <= 1 THEN FALSE
    ELSE LET e == CHOOSE x \in fs.ents[dir] : x.name = path[1]
         IN  e.type # "dir" \/ ThroughLink(e.ino, Tail(path))

\* the last component of a relative POSIX path
BaseName(filename) == SubSeq(filename, RFind(filename, "/") + 2, Len(filename))

\* the records of a list whose case-folded filename is key, in order
RECURSIVE WithKey(_, _)
WithKey(recs, key) ==
    IF recs = <<>> THEN <<>>
    ELSE IF Lower(Head(recs).filename) = key
         THEN <<Head(recs)>> \o WithKey(Tail(recs), key)
         ELSE WithKey(Tail(recs), key)

-----------------------------------------------------------------------------
(* C1: the traversal that follows links. *)

\* C1: with follow_symlinks the run ends on every tree, cyclic links
\* included; once the traversal is over every real media file of every
\* directory reachable from the root has been yielded exactly once, and at
\* no time has a file been yielded twice, under one path or under two.
C1_FollowOnce ==
    /\ (follow /\ pc = "start") ~> (pc = "done")
    /\ [](follow /\ pc = "built" =>
            \A d \in ReachDirs({1}, {"dir", "symdir"}) :
               \A e \in fs.ents[d] :
                  (e.type = "file" /\ is_media_file(e, fs.script)) =>
                      TimesYielded(d, e.name) = 1)
    /\ [](follow =>
            \A i, j \in 1..Len(yielded) :
               (yielded[i].dir = yielded[j].dir /\ yielded[i].name = yielded[j].name)
                  => i = j)

\* C1 witness: a traversal that followed links is over, it met a link to a
\* directory it had visited, and it yielded files of three directories.
C1_Witness ==
    /\ follow /\ pc = "built"
    /\ \E d \in seen : \E e \in fs.ents[d] : e.type = "symdir" /\ e.ino \in seen
    /\ Cardinality({ yielded[i].dir : i \in 1..Len(yielded) }) = 3

-----------------------------------------------------------------------------
(* C2: the outcomes of main. *)

ManifestWritten == prevOut # <<>>

\* C2: main ends with status 2 and no manifest when the root does not
\* exist, with status 3 and no manifest when it is no directory, and
\* otherwise with status 0 and list.json written.
C2_ThreeOutcomes ==
    pc = "done" =>
        /\ fs.root = "missing" => (status = 2 /\ ~ManifestWritten)
        /\ fs.root = "file" => (status = 3 /\ ~ManifestWritten)
        /\ fs.root = "dir" => (status = 0 /\ ManifestWritten /\ HasManifest)

\* C2, the part that holds: a status other than 0 is never preceded or
\* accompanied by a manifest write of that run.
C2_NoWriteOnFailure ==
    (pc = "done" /\ status # 0) => Len(prevOut) = run - 1

-----------------------------------------------------------------------------
(* C3: failed probes. *)

\* C3: for a valid root no failure of a per-file probe leaves the resolver
\* as an exception; build_list completes with one record per yielded file.
C3_ProbeNeverRaises ==
    /\ fs.root = "dir" => exc # "PermissionError"
    /\ pc = "built" => Len(items) = Len(yielded)

\* C3, the part that holds: when the build completes there is one record
\* per file that passed the filter, and a file whose probe failed in a way
\* the resolver catches has orientation "unknown".
C3_CaughtFailuresOnly ==
    pc = "built" =>
        /\ Len(items) = Len(yielded)
        /\ \A i \in 1..Len(yielded) :
              /\ items[i].filename = make_relative_posix(yielded[i].path)
              /\ (Ext(yielded[i].name) \in VIDEO_EXTS
                  /\ fs.files[yielded[i].ino].probe.how # "ok")
                 => items[i].orientation = "unknown"

-----------------------------------------------------------------------------
(* C4: the order of the catalog. *)

CatalogKeys == { Lower(items[i].filename) : i \in 1..Len(items) }

\* C4: the catalog holds the records of the traversal, each once, in
\* non-descending order of the lower-cased filename; records with the same
\* lower-cased filename keep the order the traversal produced them in.
C4_SortedStable ==
    pc = "built" =>
        /\ Len(catalog) = Len(items)
        /\ \A i \in 1..(Len(catalog) - 1) :
              StrLeq(Lower(catalog[i].filename), Lower(catalog[i + 1].filename))
        /\ \A key \in CatalogKeys : WithKey(catalog, key) = WithKey(items, key)

\* C4 witness: a catalog that differs from the traversal order and holds
\* two adjacent records whose filenames differ only in case.
C4_Witness ==
    /\ pc = "built" /\ catalog # items
    /\ \E i \in 1..(Len(catalog) - 1) :
          /\ catalog[i].filename # catalog[i + 1].filename
          /\ Lower(catalog[i].filename) = Lower(catalog[i + 1].filename)

-----------------------------------------------------------------------------
(* C5: two runs on one tree. *)

\* C5: every run on the same tree with the same flag writes the same
\* manifest, whatever order the traversal lists the directories in.
C5_SameManifest ==
    \A i, j \in 1..Len(prevOut) : prevOut[i] = prevOut[j]

-----------------------------------------------------------------------------
(* C7: the reserved names. *)

\* C7 (as amended): no record carries the base name list.json or the name
\* the script runs under, in either traversal mode and also when the script
\* runs under a media extension; the exclusion is by these two names only.
C7_ReservedNames ==
    /\ \A i \in 1..Len(items) :
          BaseName(items[i].filename) \notin IGNORE_NAMES(fs.script)
    /\ \A i \in 1..Len(catalog) :
          BaseName(catalog[i].filename) \notin IGNORE_NAMES(fs.script)

\* C7 witness: a run of the script under the name updatelist.mp4 has
\* written a manifest that holds records and none for the script.
C7_Witness ==
    /\ pc = "done" /\ status = 0 /\ catalog # <<>>
    /\ fs.script = Name_scriptmp4
    /\ \E e \in fs.ents[1] : e.name = fs.script /\ e.type = "file"

\* C7 as stated: no record refers to a manifest file or to the script,
\* also when that file has been renamed to a media extension.
C7_NeverListed ==
    \A i \in 1..Len(yielded) :
        fs.files[yielded[i].ino].was \notin {"manifest", "script"}

-----------------------------------------------------------------------------
(* C8: the default traversal. *)

\* C8: without follow_symlinks no yielded path passes through a symbolic
\* link to a directory and the run ends; a link to a media file that lies
\* in a real directory is yielded.
C8_DefaultStaysReal ==
    /\ (~follow /\ pc = "start") ~> (pc = "done")
    /\ [](~follow => \A i \in 1..Len(yielded) : ~ThroughLink(1, yielded[i].path))
    /\ [](~follow /\ pc = "built" =>
            \A d \in ReachDirs({1}, {"dir"}) :
               \A e \in fs.ents[d] :
                  (e.type = "symfile" /\ is_media_file(e, fs.script)) =>
                      TimesYielded(d, e.name) = 1)

\* C8 witness: a default traversal of a tree whose root holds a link to a
\* directory is over and has yielded the link d/k.png.
C8_Witness ==
    /\ ~follow /\ pc = "built"
    /\ \E e \in fs.ents[1] : e.type = "symdir"
    /\ \E i \in 1..Len(yielded) :
          yielded[i].path = <<Name_d, Name_kpng>>
          /\ \E e \in fs.ents[yielded[i].dir] : e.name = Name_kpng /\ e.type = "symfile"

=============================================================================
